---- MODULE Spec2Model ----
(***************************************************************************)
(* Model of ai-chat-worker: the token estimator, the token limit check and *)
(* the message-history trimmer of src/utils/openai.ts, and the chat        *)
(* resolver of src/index.ts.                                               *)
(*                                                                         *)
(* A string is modelled by what the code observes of it: its length, the   *)
(* number of its characters in U+4E00..U+9FFF, and the number of leading     *)
(* and trailing whitespace characters (a whitespace-only string has        *)
(* lead = trail = length).  A message object is a record with its role,    *)
(* its content and `ref`, the identity of the JavaScript object.           *)
(***************************************************************************)
EXTENDS Integers, Sequences, FiniteSets

VARIABLES
    arrays,             \* the two arrays of a call of optimizeMessages: caller's and copy
    model,              \* the model argument of optimizeMessages
    optimizedMessages,  \* which array the local optimizedMessages refers to
    pc,                 \* position in optimizeMessages
    iterations,         \* iterations of the while loop entered so far
    cpc,                \* position in the chat resolver
    input,              \* the chat resolver's input argument
    chatMessages,       \* the chat resolver's local messages array
    requests,           \* the requests the resolver handed to fetch
    response,           \* how the fetch settled
    chatResult          \* what the resolver returned

vars == <<arrays, model, optimizedMessages, pc, iterations,
          cpc, input, chatMessages, requests, response, chatResult>>

trimVars == <<arrays, model, optimizedMessages, pc, iterations>>
chatVars == <<cpc, input, chatMessages, requests, response, chatResult>>

----------------------------------------------------------------------------
(* Bounds *)

MaxLen == 4          \* longest conversation handed to optimizeMessages
MaxIterations == 5   \* the loop is followed for at most this many iterations
MaxHistory == 2      \* longest enumerated caller-supplied history
MaxLimitLen == 2     \* longest conversation handed to checkTokenLimit on its own

----------------------------------------------------------------------------
(* Strings *)

Text(n, c, l, t) == [length |-> n, cjk |-> c, lead |-> l, trail |-> t]

EmptyText == Text(0, 0, 0, 0)

\* a + b on strings
Concat(a, b) ==
    Text(a.length + b.length, a.cjk + b.cjk,
         IF a.lead = a.length THEN a.length + b.lead ELSE a.lead,
         IF b.trail = b.length THEN b.length + a.trail ELSE b.trail)

\* String.prototype.trim
Trim(s) ==
    IF s.lead = s.length THEN EmptyText
    ELSE Text(s.length - s.lead - s.trail, s.cjk, 0, 0)

\* ceil(num / den) for num >= 0, den > 0
CeilDiv(num, den) == (num + den - 1) \div den

\* Array.prototype.join('') over the contents of the messages
RECURSIVE JoinContents(_)
JoinContents(messages) ==
    IF messages = <<>> THEN EmptyText
    ELSE Concat(JoinContents(SubSeq(messages, 1, Len(messages) - 1)),
                messages[Len(messages)].content)

----------------------------------------------------------------------------
(* estimateTokens and checkTokenLimit *)

\* Math.ceil(chineseChars / 1.5 + otherChars / 4): the sum is
\* (8 * chineseChars + 3 * otherChars) / 12, and the double arithmetic is exact
\* to well under 1/12, so the ceiling is that of the rational.
estimateTokens(text) ==
    LET chineseChars == text.cjk
        otherChars == text.length - chineseChars
    IN  CeilDiv(8 * chineseChars + 3 * otherChars, 12)

KnownModels ==
    {"gpt-3.5-turbo", "gpt-3.5-turbo-16k", "gpt-4", "gpt-4-32k",
     "gpt-4-turbo-preview", "gpt-4o", "gpt-4o-mini"}

tokenLimits ==
    [m \in KnownModels |->
        CASE m = "gpt-3.5-turbo" -> 4096
          [] m = "gpt-3.5-turbo-16k" -> 16384
          [] m = "gpt-4" -> 8192
          [] m = "gpt-4-32k" -> 32768
          [] m = "gpt-4-turbo-preview" -> 128000
          [] m = "gpt-4o" -> 128000
          [] m = "gpt-4o-mini" -> 128000]

\* tokenLimits is an object literal: a property read that misses the own keys
\* goes to Object.prototype, whose members are functions and objects.
ObjectPrototypeKeys ==
    {"constructor", "toString", "valueOf", "hasOwnProperty", "__proto__"}

DefaultLimit == 4096

\* tokenLimits[model] reads an inherited member (a function or an object, which is
\* truthy, so || 4096 keeps it) and limit * 0.8 is then NaN
LimitIsNaN(m) == m \notin KnownModels /\ m \in ObjectPrototypeKeys

\* tokenLimits[model] || 4096, where it is a number
LimitOf(m) == IF m \in KnownModels THEN tokenLimits[m] ELSE DefaultLimit

\* estimatedTokens < limit * 0.8.  For a number, e < 0.8 * limit iff
\* 5 * e < 4 * limit: of the table's products only 102400 is an integer, and the
\* double product is exactly 102400.  A comparison with NaN is false.
checkTokenLimit(messages, m) ==
    LET totalText == JoinContents(messages)
        estimatedTokens == estimateTokens(totalText)
    IN  IF LimitIsNaN(m) THEN FALSE
        ELSE 5 * estimatedTokens < 4 * LimitOf(m)

----------------------------------------------------------------------------
(* optimizeMessages *)

Min(S) == CHOOSE x \in S : \A y \in S : x <= y

\* optimizedMessages.splice(i, 1), with i counted from 1
Splice(messages, i) ==
    SubSeq(messages, 1, i - 1) \o SubSeq(messages, i + 1, Len(messages))

LastScannedMutant(messages) == Len(messages)

\* for (let i = 1; i < length - 1; i++): the indices visited, counted from 1,
\* are 2 .. length - 1
LastScanned(messages) == Len(messages) - 1

FirstScannedMutant == 1

\* for (let i = 1; ...): the first index visited, counted from 1
FirstScanned == 2

Max(S) == CHOOSE x \in S : \A y \in S : x >= y

\* the indices the for loop would splice at
NonSystem(messages) ==
    {i \in FirstScanned..LastScanned(messages) : messages[i].role /= "system"}

FirstNonSystemMutant(messages) ==
    IF NonSystem(messages) = {} THEN 0 ELSE Max(NonSystem(messages))

\* the index the for loop splices at, counted from 1 (it breaks at the first it
\* finds); 0 when it finds none
FirstNonSystem(messages) ==
    IF NonSystem(messages) = {} THEN 0 ELSE Min(NonSystem(messages))

\* the for loop of one iteration
RemoveEarliest(messages) ==
    IF FirstNonSystem(messages) = 0 THEN messages
    ELSE Splice(messages, FirstNonSystem(messages))

StopLengthMutant == 3

\* if (optimizedMessages.length <= 2) break
StopLength == 2

LoopConditionMutant(messages, m) ==
    ~checkTokenLimit(messages, m) /\ Len(messages) > 3

\* the condition of the while loop
LoopCondition(messages, m) == ~checkTokenLimit(messages, m) /\ Len(messages) > 1

\* The function as a whole, from a working copy.  An iteration that removes
\* nothing and does not break leaves the loop where it was: the call never
\* returns.
RECURSIVE optimizeLoop(_, _)
optimizeLoop(messages, m) ==
    IF ~LoopCondition(messages, m) THEN [returns |-> TRUE, value |-> messages]
    ELSE LET after == RemoveEarliest(messages)
         IN  IF Len(after) <= StopLength THEN [returns |-> TRUE, value |-> after]
             ELSE IF after = messages THEN [returns |-> FALSE, value |-> after]
             ELSE optimizeLoop(after, m)

optimizeMessages(messages, m) == optimizeLoop(messages, m)

CopyTargetMutant == "caller"

\* let optimizedMessages = [...messages]: a new array
CopyTarget == "copy"

Roles == {"system", "user", "assistant"}

Small == Text(5, 1, 0, 0)
Mid == Text(13094, 0, 0, 0)
Big == Text(9900, 9900, 0, 0)

Contents == {Small, Mid, Big}

\* the models optimizeMessages is called with: two of the table and one unknown
Models == {"gpt-3.5-turbo", "gpt-4", "deepseek-chat"}

\* the model identifiers checkTokenLimit is tried on
ModelIds == KnownModels \cup {"deepseek-chat", "constructor", "toString"}

Message(r, role, content) == [ref |-> r, role |-> role, content |-> content]

\* the messages conversations are made of: user messages of every content, short
\* and medium system messages, and a short assistant message
MessageKinds ==
    ({"user"} \X Contents) \cup ({"system"} \X {Small, Mid}) \cup {<<"assistant", Small>>}

\* the conversations of at most maxLen messages; each message is its own object
Conversations(maxLen) ==
    UNION {{[i \in 1..n |-> Message(i, f[i][1], f[i][2])] :
                f \in [1..n -> MessageKinds]} : n \in 0..maxLen}

None == <<>>
Some(x) == <<x>>

ChatIdle ==
    /\ cpc = "idle"
    /\ input = None
    /\ chatMessages = <<>>
    /\ requests = <<>>
    /\ response = None
    /\ chatResult = None

Init ==
    /\ arrays \in {[caller |-> c, copy |-> <<>>] : c \in Conversations(MaxLen)}
    /\ model \in Models
    /\ optimizedMessages = "none"
    /\ pc = "call"
    /\ iterations = 0
    /\ ChatIdle

\* a call of optimizeMessages with any model identifier, on a short conversation
LimitInit ==
    /\ arrays \in {[caller |-> c, copy |-> <<>>] : c \in Conversations(MaxLimitLen)}
    /\ model \in ModelIds
    /\ optimizedMessages = "none"
    /\ pc = "call"
    /\ iterations = 0
    /\ ChatIdle

\* line 154
Copy ==
    /\ pc = "call"
    /\ optimizedMessages' = CopyTarget
    /\ arrays' = [arrays EXCEPT ![CopyTarget] = arrays["caller"]]
    /\ pc' = "while"
    /\ UNCHANGED <<model, iterations>>
    /\ UNCHANGED chatVars

\* one iteration of the while loop, lines 157-174
Iterate ==
    /\ pc = "while"
    /\ iterations < MaxIterations
    /\ LoopCondition(arrays[optimizedMessages], model)
    /\ LET after == RemoveEarliest(arrays[optimizedMessages])
       IN  /\ arrays' = [arrays EXCEPT ![optimizedMessages] = after]
           /\ pc' = IF Len(after) <= StopLength THEN "return" ELSE "while"
    /\ iterations' = iterations + 1
    /\ UNCHANGED <<model, optimizedMessages>>
    /\ UNCHANGED chatVars

\* the while condition is false, line 157
ExitLoop ==
    /\ pc = "while"
    /\ ~LoopCondition(arrays[optimizedMessages], model)
    /\ pc' = "return"
    /\ UNCHANGED <<arrays, model, optimizedMessages, iterations>>
    /\ UNCHANGED chatVars

Next == Copy \/ Iterate \/ ExitLoop

Spec == Init /\ [][Next]_vars

LimitSpec == LimitInit /\ [][Next]_vars

\* return optimizedMessages, line 176
Returned == pc = "return"
Result == arrays[optimizedMessages]
Caller == arrays["caller"]

----------------------------------------------------------------------------
(* The chat resolver, src/index.ts *)

\* the content of the system message, line 118: 57 characters, 49 of them CJK
SystemPrompt == Text(57, 49, 0, 0)

MaxMessageLength == 4000

HistoryKept == 10

\* input.conversation.slice(-10)
SliceLast(s, n) == IF Len(s) > n THEN SubSeq(s, Len(s) - n + 1, Len(s)) ELSE s

\* JSON.stringify of an array of messages: role and content, no identity
Json(messages) ==
    [i \in 1..Len(messages) |->
        [role |-> messages[i].role, content |-> messages[i].content]]

allowedModels == {"deepseek-chat", "deepseek-coder", "deepseek-reasoner", "deepseek-v3"}

\* !input.message || input.message.trim().length === 0
MessageIsEmpty(message) ==
    IF message = None THEN TRUE
    ELSE message[1].length = 0 \/ Trim(message[1]).length = 0

\* input.message.length > 4000
MessageTooLong(message) == message[1].length > MaxMessageLength

\* lines 115-132: the system message, the last 10 of the history, the new message
Assemble(in) ==
    LET history == IF in.conversation /= None /\ Len(in.conversation[1]) > 0
                   THEN SliceLast(in.conversation[1], HistoryKept)
                   ELSE <<>>
        all == <<[role |-> "system", content |-> SystemPrompt]>>
               \o history
               \o <<[role |-> "user", content |-> Trim(in.message[1])]>>
    IN  [i \in 1..Len(all) |-> Message(i, all[i].role, all[i].content)]

\* line 141
ChosenModel(in) ==
    IF in.model /= None /\ in.model[1] \in allowedModels THEN in.model[1]
    ELSE "deepseek-chat"

Failure(error) ==
    [threw |-> FALSE, success |-> FALSE, message |-> None, error |-> Some(error)]

Success(text) ==
    [threw |-> FALSE, success |-> TRUE, message |-> Some(text), error |-> None]

\* response.ok
Ok(status) == status \in 200..299

\* the switch of lines 176-191
StatusError(status) ==
    CASE status = 401 -> "API key invalid or expired"
      [] status = 403 -> "no permission for the model"
      [] status = 429 -> "rate limited"
      [] status = 500 -> "provider internal error"
      [] OTHER -> "provider error with status"

AiMessageIsEmptyMutant(content) ==
    IF content = None THEN TRUE ELSE content[1].length = 0

\* !aiMessage || aiMessage.trim().length === 0
AiMessageIsEmpty(content) ==
    IF content = None THEN TRUE
    ELSE content[1].length = 0 \/ Trim(content[1]).length = 0

\* lines 166-244, once the fetch has settled.  A rejected fetch, a body that is
\* not JSON and a first choice without a message throw, and the catch returns.
Handle(r) ==
    IF r.rejects THEN Failure("request failed: thrown error")
    ELSE IF ~Ok(r.status) THEN Failure(StatusError(r.status))
    ELSE IF r.body = "not json" THEN Failure("request failed: thrown error")
    ELSE IF r.body \in {"no choices", "empty choices"}
         THEN Failure("provider returned an empty response")
    ELSE IF r.body = "choice without message"
         THEN Failure("request failed: thrown error")
    ELSE IF AiMessageIsEmpty(r.content) THEN Failure("AI returned an empty message")
    ELSE Success(Trim(r.content[1]))

Hello == Text(6, 2, 1, 1)

MessageTexts ==
    {None, Some(EmptyText), Some(Text(3, 0, 3, 3)), Some(Hello),
     Some(Text(4000, 0, 0, 0)), Some(Text(4001, 0, 0, 0)), Some(Text(4002, 10, 1, 1))}

HistoryMessages == {[role |-> r, content |-> c] : r \in Roles, c \in {Small, Mid}}

\* eleven turns, more than the resolver keeps
LongHistory ==
    [i \in 1..11 |-> [role |-> IF i = 1 THEN "assistant" ELSE "user", content |-> Small]]

Histories ==
    {None, Some(LongHistory)}
    \cup {Some(h) : h \in UNION {[1..n -> HistoryMessages] : n \in 0..MaxHistory}}

Inputs ==
    {[message |-> m, conversation |-> h, model |-> md] :
        m \in MessageTexts, h \in Histories,
        md \in {None, Some("deepseek-coder"), Some("gpt-4")}}

Response(rejects, status, body, content) ==
    [rejects |-> rejects, status |-> status, body |-> body, content |-> content]

Responses ==
    {Response(TRUE, 0, "none", None)}
    \cup {Response(FALSE, st, "error text", None) : st \in {400, 401, 403, 429, 500}}
    \cup {Response(FALSE, 200, b, None) :
            b \in {"not json", "no choices", "empty choices", "choice without message"}}
    \cup {Response(FALSE, 200, "choices", c) :
            c \in {None, Some(EmptyText), Some(Text(2, 0, 2, 2)), Some(Hello),
                   Some(Text(40, 30, 0, 1))}}

TrimIdle ==
    /\ arrays = [caller |-> <<>>, copy |-> <<>>]
    /\ model = "none"
    /\ optimizedMessages = "none"
    /\ pc = "idle"
    /\ iterations = 0

ChatInit ==
    /\ TrimIdle
    /\ cpc = "call"
    /\ input \in {Some(in) : in \in Inputs}
    /\ chatMessages = <<>>
    /\ requests = <<>>
    /\ response = None
    /\ chatResult = None

\* lines 96-112: the input is refused and nothing is sent
ChatRefuse ==
    /\ cpc = "call"
    /\ \/ /\ MessageIsEmpty(input[1].message)
          /\ chatResult' = Some(Failure("message must not be empty"))
       \/ /\ ~MessageIsEmpty(input[1].message)
          /\ MessageTooLong(input[1].message)
          /\ chatResult' = Some(Failure("message longer than 4000 characters"))
    /\ cpc' = "done"
    /\ UNCHANGED <<input, chatMessages, requests, response>>
    /\ UNCHANGED trimVars

\* lines 114-164: the messages are assembled and handed to fetch as they are.
\* (temperature and max_tokens, which no message depends on, are left out.)
ChatSend ==
    /\ cpc = "call"
    /\ ~MessageIsEmpty(input[1].message)
    /\ ~MessageTooLong(input[1].message)
    /\ chatMessages' = Assemble(input[1])
    /\ requests' = Append(requests,
                          [model |-> ChosenModel(input[1]),
                           messages |-> Json(chatMessages')])
    /\ cpc' = "awaiting"
    /\ UNCHANGED <<input, response, chatResult>>
    /\ UNCHANGED trimVars

\* lines 166-244: the fetch settles, and the resolver returns
ChatSettle ==
    /\ cpc = "awaiting"
    /\ \E r \in Responses :
          /\ response' = Some(r)
          /\ chatResult' = Some(Handle(r))
    /\ cpc' = "done"
    /\ UNCHANGED <<input, chatMessages, requests>>
    /\ UNCHANGED trimVars

ChatNext == ChatRefuse \/ ChatSend \/ ChatSettle

ChatSpec == ChatInit /\ [][ChatNext]_vars

----------------------------------------------------------------------------
(* Properties of the chat resolver *)

\* C3: the messages of every request handed to the provider are optimizeMessages
\* applied to the assembled conversation and the request's model.
C3_SendsOptimized ==
    \A i \in 1..Len(requests) :
        LET optimized == optimizeMessages(chatMessages, requests[i].model)
        IN  /\ optimized.returns
            /\ requests[i].messages = Json(optimized.value)

\* C10: the resolver returns, never throws; a failure has no message and an
\* error; a success has a non-empty message and no error, and comes only from an
\* OK response with a non-blank content; an empty, blank or over-long message
\* sends nothing.
C10_WellFormedOutcome ==
    cpc = "done" =>
        /\ chatResult /= None
        /\ LET r == chatResult[1]
               m == input[1].message
               invalid == IF m = None THEN TRUE
                          ELSE m[1].lead = m[1].length \/ m[1].length > 4000
           IN  /\ ~r.threw
               /\ ~r.success => (r.message = None /\ r.error /= None)
               /\ r.success =>
                     /\ r.message /= None
                     /\ r.message[1].length > 0
                     /\ r.error = None
                     /\ response /= None
                     /\ ~response[1].rejects
                     /\ response[1].status = 200
                     /\ response[1].body = "choices"
               /\ invalid => (requests = <<>> /\ ~r.success)
               /\ ~invalid => Len(requests) = 1

C10_Witness ==
    /\ cpc = "done"
    /\ response /= None
    /\ response[1].content = Some(Text(2, 0, 2, 2))
    /\ ~chatResult[1].success

----------------------------------------------------------------------------
(* Properties of optimizeMessages *)

Range(s) == {s[i] : i \in 1..Len(s)}

Trimmed == Len(Result) < Len(Caller)

\* C1: a returned result holds every system message of the input, ends with the
\* input's last message when the input is non-empty, and has at least two messages
\* when the input has.
C1_KeepsSystemAndLast ==
    Returned =>
        /\ \A i \in 1..Len(Caller) :
              Caller[i].role = "system" => Caller[i] \in Range(Result)
        /\ Caller /= <<>> =>
              Result /= <<>> /\ Result[Len(Result)] = Caller[Len(Caller)]
        /\ Len(Caller) >= 2 => Len(Result) >= 2

C1_Witness ==
    /\ Returned
    /\ Trimmed
    /\ \E i \in 2..(Len(Caller) - 1) : Caller[i].role = "system"

\* C2: the loop is entered at most n times for an n-message input (so the call
\* returns).
C2_AtMostNIterations == iterations <= Len(Caller)

\* C4: optimizing a returned result again returns that same result.
C4_Idempotent ==
    Returned => optimizeMessages(Result, model) = [returns |-> TRUE, value |-> Result]

C4_Witness == Returned /\ Trimmed /\ ~checkTokenLimit(Result, model)

\* C5: a returned result of more than two messages passes the limit check.
C5_LongResultFits ==
    (Returned /\ Len(Result) > 2) => checkTokenLimit(Result, model)

C5_Witness == Returned /\ Trimmed /\ Len(Result) > 2

\* C6: the caller's array is never modified, and a conversation that passes the
\* limit check is returned message for message.
C6_FitsUnchangedAndInputIntact ==
    [][/\ arrays'["caller"] = arrays["caller"]
       /\ (pc' = "return" /\ checkTokenLimit(arrays'["caller"], model'))
             => arrays'[optimizedMessages'] = arrays'["caller"]]_vars

C6_Witness == Returned /\ checkTokenLimit(Caller, model) /\ Len(Caller) >= 3

\* the class counts of the conversation's contents, summed message by message
RECURSIVE SumOver(_, _)
SumOver(messages, field) ==
    IF messages = <<>> THEN 0
    ELSE messages[1].content[field] + SumOver(Tail(messages), field)

\* C7: the limit check is true exactly when the estimate, the ceiling of
\* cjk / 1.5 + other / 4 over all contents, is below 80% of the ceiling (the
\* table value, 4096 for an unknown model); with 4096, exactly when the estimate
\* is at most 3276; the empty conversation passes.
C7_LimitCheck ==
    LET cjk == SumOver(Caller, "cjk")
        other == SumOver(Caller, "length") - cjk
        e == estimateTokens(JoinContents(Caller))
        ceiling == IF model \in KnownModels THEN tokenLimits[model] ELSE 4096
        passes == checkTokenLimit(Caller, model)
    IN  /\ 12 * e >= 8 * cjk + 3 * other
        /\ 12 * (e - 1) < 8 * cjk + 3 * other
        /\ passes <=> (10 * e < 8 * ceiling)
        /\ ceiling = 4096 => (passes <=> e <= 3276)
        /\ Caller = <<>> => passes

\* C8 as stated: an iteration removes exactly one message, the first non-system
\* one at an index >= 1 (counted from 0).
C8_RemovesFirstNonSystem ==
    [][iterations' = iterations + 1 =>
        LET before == arrays[optimizedMessages]
            after == arrays'[optimizedMessages]
        IN  \E i \in 2..Len(before) :
              /\ before[i].role /= "system"
              /\ \A k \in 2..(i - 1) : before[k].role = "system"
              /\ Len(after) = Len(before) - 1
              /\ \A j \in 1..Len(after) :
                    after[j] = IF j < i THEN before[j] ELSE before[j + 1]]_vars

\* C8 amended: an iteration removes the first non-system message among the
\* indices 1 .. length - 2 (counted from 0), and nothing when there is none.
C8_RemovesFirstInnerNonSystem ==
    [][iterations' = iterations + 1 =>
        LET before == arrays[optimizedMessages]
            after == arrays'[optimizedMessages]
            inner == {i \in 2..(Len(before) - 1) : before[i].role /= "system"}
        IN  IF inner = {} THEN after = before
            ELSE \E i \in inner :
                   /\ \A k \in inner : i <= k
                   /\ Len(after) = Len(before) - 1
                   /\ \A j \in 1..Len(after) :
                         after[j] = IF j < i THEN before[j] ELSE before[j + 1]]_vars

C8_Witness ==
    /\ pc = "while"
    /\ iterations = 1
    /\ Len(Result) = Len(Caller) - 1
    /\ Caller[2].role = "system"

\* C9: a returned result is the input with some messages left out, in the input's
\* order, and a removed inner non-system message has no surviving non-system
\* message between the first message and itself.
C9_OldestFirst ==
    Returned =>
        /\ \A j \in 1..Len(Result) :
              /\ Result[j].ref \in 1..Len(Caller)
              /\ Result[j] = Caller[Result[j].ref]
        /\ \A j, k \in 1..Len(Result) : j < k => Result[j].ref < Result[k].ref
        /\ \A i \in 2..(Len(Caller) - 1) :
              (Caller[i].role /= "system" /\ Caller[i] \notin Range(Result)) =>
                 \A k \in 2..(i - 1) :
                    Caller[k].role /= "system" => Caller[k] \notin Range(Result)

C9_Witness ==
    /\ Returned
    /\ \E i, k \in 2..(Len(Caller) - 1) :
          /\ i < k
          /\ Caller[i] \notin Range(Result)
          /\ Caller[k] \in Range(Result)

====
